---------------------------- MODULE Spec2Model ----------------------------
(***************************************************************************)
(* xdelegate: thread_unsafe<T_ARGS...> and thread_safe<T_ARGS...>          *)
(* (source/xdelegate.h).                                                   *)
(*                                                                         *)
(* A delegate is a std::vector<info> of {m_pCallback, m_pClass}.  Register *)
(* appends, NotifyAll walks the vector calling every m_pCallback with its  *)
(* m_pClass and the forwarded arguments, RemoveDelegates erases by         *)
(* m_pClass.  thread_safe derives from thread_unsafe and runs each of the  *)
(* four operations under std::lock_guard<std::mutex>.                      *)
(*                                                                         *)
(* Spec is one thread using a thread_unsafe; SpecSafe is two threads calling *)
(* the operations thread_safe declares; SpecExposed adds the calls a thread  *)
(* can make on the public thread_unsafe base of a thread_safe.  SpecBind is  *)
(* Register<T_CALLABLE_V> with its compile-time checks, for callables of     *)
(* several signatures; SpecSafeLive is SpecSafe with callbacks that return,  *)
(* scheduled fairly; SpecReentry is one thread using a thread_unsafe whose   *)
(* callbacks call Register and RemoveDelegates on it; SpecPair is two       *)
(* threads calling NotifyAll on two thread_safe whose callbacks call into    *)
(* the other one, scheduled fairly.  The history variables record what was   *)
(* called and what a pass invoked; no operation reads them.                  *)
(*                                                                         *)
(* Addresses are small integers, 0 is nullptr.  An m_pCallback is the      *)
(* lambda the Register template instantiates for one callable: it is named *)
(* by the kind of Register and the callable it was instantiated for.       *)
(***************************************************************************)
EXTENDS Integers, Sequences, FiniteSets, TLC

\* ------------------------------------------------------------------ bounds
MaxEntries == 3      \* registrations are made while the vector is shorter
MaxOps     == 2      \* calls each thread makes on a thread_safe delegate, its base included

\* --------------------------------------------------------------- constants
NULL       == 0                       \* nullptr, the default pHandle
Main       == 1                       \* the one thread using a thread_unsafe
Threads    == {1, 2}                  \* the threads using a thread_safe
Instances  == {1, 2}                  \* addresses of registered class instances
Handles    == {NULL, 2}               \* pHandle values given to Register
Keys       == Instances \cup Handles  \* what RemoveDelegates may be given
MemberFuncs == {"OnEvent"}            \* T_MEMBER_FUNC
Returning  == {"OnEvent", "Print"}    \* callables whose body just returns
MayThrow   == {"Thrower"}             \* callables whose body may raise
Reentrant  == {"Reenter"}             \* callables that call the delegate again
UnsafeFree == {"Print", "Thrower"}    \* T_CALLABLE_V given to a thread_unsafe
SafeFree   == {"Print", "Reenter"}    \* T_CALLABLE_V given to a thread_safe
SafeHandles == {NULL}                 \* pHandle values given to a thread_safe
BaseFree   == {"Print"}               \* T_CALLABLE_V given to its base directly
ArgTypes   == {"int", "std::string"}  \* T_ARGS: trivially copied / moved from
NoArgs     == "none"                  \* T_ARGS of a thread_unsafe<>: the empty pack
BindArgTypes == ArgTypes \cup {NoArgs} \* T_ARGS of the delegates Register is compiled for
ArgValues  == {1, 2}                  \* values a caller passes to NotifyAll
Empty      == 0                       \* the empty std::string
OpNames    == {"Register", "RemoveDelegates", "NotifyAll"}
\* T_CALLABLE_V of the Register call sites that are compiled:
\*   "PrintValue"  void PrintValue(int)
\*   "Tick"        void Tick()
\*   "Defaulted"   [](int x = 0) {}
BindCallables == {"PrintValue", "Tick", "Defaulted"}
Unsubscribing == {"OnEventOnce"}      \* member functions that call RemoveDelegates(this)
Subscribing == {"Subscribe"}          \* callables that call Register<Print>()
ReentryMembers == MemberFuncs \cup Unsubscribing
ReentryFree == {"Print"} \cup Subscribing
Delegates  == {"A", "B"}              \* two thread_safe<int> objects
CallsOther == {"NotifyOther", "RemoveOther"}  \* callables that call the other delegate
PairCallables == {"Print"} \cup CallsOther

VARIABLES
    T_ARGS,        \* the argument type the delegate is instantiated with
    m_Delegates,   \* thread_unsafe::m_Delegates
    m_Mutex,       \* thread_safe::m_Mutex: 0 free, else the owning thread
    pc,            \* per thread: where it is
    op,            \* per thread: the thread_safe call it is making
    nops,          \* per thread: thread_safe calls made so far
    Args,          \* per thread: NotifyAll's parameter Args
    it,            \* per thread: the range-for's iterator (an index)
    itEnd,         \* per thread: the range-for's end iterator
    calls,         \* per thread: the callables invoked by its current pass
    raised,        \* a callable let an exception out
    terminated,    \* std::terminate was called
    inner,         \* per thread: the operation a callback called re-entrantly
    absSeq,        \* history: registrations not removed since, in call order
    passSeq,       \* history: per thread, the vector when its pass began
    passArg,       \* history: per thread, the value the caller gave NotifyAll
    removedKeys,   \* history: keys removed and not registered again since
    last,          \* history: the last operation that returned
    rejected,      \* history: callables whose Register did not compile
    buffer,        \* the array the iterators of a pass with re-entrant callbacks point into
    m_DelegatesOf, \* two thread_safe delegates: the m_Delegates of each
    m_MutexOf,     \* two thread_safe delegates: the m_Mutex of each, 0 free, else the owner
    frame          \* per thread: where it is in a call on one of the two and in a
                   \* call its callback makes on the other

\* the state of the two delegates whose callbacks call each other
pairVars == << m_DelegatesOf, m_MutexOf, frame >>

\* the state of the one delegate, std::terminate apart
soloVars == << T_ARGS, m_Delegates, m_Mutex, pc, op, nops, Args, it, itEnd, calls,
               raised, inner, absSeq, passSeq, passArg, removedKeys, last,
               rejected, buffer >>

vars == << T_ARGS, m_Delegates, m_Mutex, pc, op, nops, Args, it, itEnd, calls,
           raised, terminated, inner, absSeq, passSeq, passArg, removedKeys, last,
           rejected, buffer, m_DelegatesOf, m_MutexOf, frame >>

\* ------------------------------------------------------------- struct info
info(cb, cls) == [m_pCallback |-> cb, m_pClass |-> cls]

\* Register<T_MEMBER_FUNC>(ClassInstance): the lambda casts pClassInstance to
\* T_CLASS* and invokes T_MEMBER_FUNC on it
BoundCallback(f) == [kind |-> "bound", fn |-> f]

\* Register<T_CALLABLE_V>(pHandle): the lambda drops the pointer and invokes
\* T_CALLABLE_V
FreeCallback(f) == [kind |-> "free", fn |-> f]

\* what is remembered of an operation that returned: its name, the key it was
\* given, the vector before it (RemoveDelegates), and for a NotifyAll the
\* Register or RemoveDelegates that came before it
Returned(name, prev, key, before) ==
    [name |-> name, prev |-> prev, key |-> key, before |-> before]

NoOp == Returned("none", "none", NULL, << >>)

\* a call on a thread_safe delegate: which operation, and its arguments
Call(name, cb, key, arg) == [name |-> name, cb |-> cb, key |-> key, arg |-> arg]

NoCall == Call("none", "none", NULL, Empty)

\* the array of info a pass iterates: what it holds, position by position, and
\* whether a reallocation has freed it since the pass took its iterators
Buffer(mem, freed) == [mem |-> mem, freed |-> freed]

NoBuffer == Buffer(<< >>, FALSE)

SafeCalls ==
    {Call("RegisterBound", f, inst, Empty) : f \in MemberFuncs, inst \in Instances}
    \cup {Call("RegisterFree", f, h, Empty) : f \in SafeFree, h \in SafeHandles}
    \cup {Call("RemoveDelegates", "none", k, Empty) : k \in Instances \cup SafeHandles}
    \cup {Call("NotifyAll", "none", NULL, a) : a \in ArgValues}

\* ------------------------------------------------- thread_unsafe, on values
\* an insert at begin() instead of push_back
push_front(D, e) == << e >> \o D

push_back(D, e) == Append(D, e)

\* Register that skips an entry the vector already holds
RegisterBoundOnce(D, f, inst) ==
    IF \E i \in 1 .. Len(D) : D[i] = info(BoundCallback(f), inst) THEN D
    ELSE push_back(D, info(BoundCallback(f), inst))

RegisterBoundSeq(D, f, inst) == push_back(D, info(BoundCallback(f), inst))

\* a Register that keys a handle-less entry by an address of its own
RegisterFreeOwnKey(D, f, pHandle) ==
    push_back(D, info(FreeCallback(f), IF pHandle = NULL THEN 2 ELSE pHandle))

RegisterFreeSeq(D, f, pHandle) == push_back(D, info(FreeCallback(f), pHandle))

\* a predicate that also asks how the entry was registered
KeyIsOfBound(d, pInstance) == d.m_pClass = pInstance /\ d.m_pCallback.kind = "bound"

\* the predicate RemoveDelegates gives std::remove_if
KeyIs(d, pInstance) == d.m_pClass = pInstance

\* std::find_if: the first position from i on whose entry has the key, else end
RECURSIVE find_if(_, _, _)
find_if(D, pInstance, i) ==
    IF i > Len(D) THEN Len(D) + 1
    ELSE IF KeyIs(D[i], pInstance) THEN i
    ELSE find_if(D, pInstance, i + 1)

\* std::remove_if's loop: every later entry the predicate rejects is moved down
\* to first; the entries from the returned position on are left-overs
RECURSIVE remove_if_loop(_, _, _, _)
remove_if_loop(D, pInstance, first, i) ==
    IF i > Len(D) THEN [seq |-> D, newEnd |-> first]
    ELSE IF ~KeyIs(D[i], pInstance)
         THEN remove_if_loop([D EXCEPT ![first] = D[i]], pInstance, first + 1, i + 1)
         ELSE remove_if_loop(D, pInstance, first, i + 1)

remove_if(D, pInstance) ==
    LET first == find_if(D, pInstance, 1)
    IN  IF first > Len(D) THEN [seq |-> D, newEnd |-> first]
        ELSE remove_if_loop(D, pInstance, first, first + 1)

\* vector::erase(first, end())
erase(D, first) == SubSeq(D, 1, first - 1)

\* std::find_if and a single erase instead of remove_if: only the first match goes
RemoveFirstOnly(D, pInstance) ==
    LET first == find_if(D, pInstance, 1)
    IN  IF first > Len(D) THEN D
        ELSE SubSeq(D, 1, first - 1) \o SubSeq(D, first + 1, Len(D))

\* remove_if without the erase: the vector keeps its length and its left-overs
RemoveNoErase(D, pInstance) == remove_if(D, pInstance).seq

\* erase given remove_if's result alone: one entry goes, and with no match the
\* iterator given is end()
RemoveEraseOne(D, pInstance) ==
    LET r == remove_if(D, pInstance)
    IN  IF r.newEnd > Len(D) THEN SubSeq(D, 1, Len(D) - 1)
        ELSE SubSeq(r.seq, 1, r.newEnd - 1) \o SubSeq(r.seq, r.newEnd + 1, Len(D))

RemoveDelegatesSeq(D, pInstance) ==
    LET r == remove_if(D, pInstance) IN erase(r.seq, r.newEnd)

\* std::forward<T_ARGS>(Args) into a by-value parameter: an int is copied; a
\* std::string is moved from, which leaves Args valid but unspecified
AfterForward(a) == IF T_ARGS = "int" THEN {a} ELSE {Empty} \cup ArgValues

\* the sequential meaning of the operations, for the history variables
Without(S, key) == SelectSeq(S, LAMBDA e : e.m_pClass # key)

\* a lambda that invokes T_MEMBER_FUNC on the instance registered first
ReceiverIsFirst(cb, pPtr) ==
    IF cb.kind = "bound" THEN m_Delegates[1].m_pClass ELSE NULL

\* what the registered lambda does with the pointer it is called with: the
\* bound one casts it to T_CLASS* and invokes T_MEMBER_FUNC on it, the free one
\* has no name for it and invokes T_CALLABLE_V on nothing
Receiver(cb, pPtr) == IF cb.kind = "bound" THEN pPtr ELSE NULL

\* D.m_pCallback(D.m_pClass, Args...): the callable invoked, the pointer the
\* lambda was given, the object the callable ran on, the argument it received
Invoked(e, a) ==
    [cb |-> e.m_pCallback, ctx |-> e.m_pClass,
     on |-> Receiver(e.m_pCallback, e.m_pClass), arg |-> a]

\* ------------------------------------------------------------------- Init
\* a default-constructed delegate that no thread has used yet
Constructed ==
    /\ m_Delegates = << >>
    /\ m_Mutex = 0
    /\ pc = [t \in Threads |-> "idle"]
    /\ op = [t \in Threads |-> NoCall]
    /\ nops = [t \in Threads |-> 0]
    /\ Args = [t \in Threads |-> Empty]
    /\ it = [t \in Threads |-> 1]
    /\ itEnd = [t \in Threads |-> 1]
    /\ calls = [t \in Threads |-> << >>]
    /\ raised = FALSE
    /\ terminated = FALSE
    /\ inner = [t \in Threads |-> "none"]
    /\ absSeq = << >>
    /\ passSeq = [t \in Threads |-> << >>]
    /\ passArg = [t \in Threads |-> Empty]
    /\ removedKeys = {}
    /\ last = NoOp
    /\ rejected = {}
    /\ buffer = NoBuffer

\* a call on one of the two delegates, and the call a callback of it makes on
\* the other: where the thread is, the delegate called, the range-for's
\* iterators, the operation the callback calls and its range-for's iterators,
\* the callback's calls that returned, and the calls the thread has made
Frame(at, d, i, e, o, ii, ie, crossed, made) ==
    [pc |-> at, d |-> d, it |-> i, itEnd |-> e, op |-> o, innerIt |-> ii,
     innerEnd |-> ie, crossed |-> crossed, made |-> made]

NoFrame == Frame("idle", "none", 1, 1, "none", 1, 1, 0, 0)

\* the two delegates default-constructed, no thread using them
PairIdle ==
    /\ m_DelegatesOf = [d \in Delegates |-> << >>]
    /\ m_MutexOf = [d \in Delegates |-> 0]
    /\ frame = [t \in Threads |-> NoFrame]

Init == T_ARGS \in ArgTypes /\ Constructed /\ PairIdle

\* ------------------------------------------------ Register at compile time
\* the argument list T_ARGS... stands for
ArgList(T) == IF T = NoArgs THEN << >> ELSE << T >>

\* the argument lists a callable can be invoked with; the callables the other
\* specifications register ("Print", "Thrower", "Reenter") are closures of the
\* form [](auto... x) {}, invocable with any of them
Signature(f) ==
    CASE f = "PrintValue" -> {<< "int" >>}
      [] f = "Tick"       -> {<< >>}
      [] f = "Defaulted"  -> {<< >>, << "int" >>}
      [] OTHER            -> {ArgList(T) : T \in BindArgTypes}

\* std::is_invocable_v<F, A...>
is_invocable_v(f, A) == A \in Signature(f)

\* static_assert(std::is_invocable_v<std::remove_pointer_t<decltype(T_CALLABLE_V)>>):
\* no argument types are given, so it asks whether T_CALLABLE_V can be invoked
\* with no argument
StaticAssert(f) == is_invocable_v(f, << >>)

\* std::invoke(T_CALLABLE_V, std::forward<T_ARGS>(Args)...) in the lambda's
\* body is well-formed
InvokeCompiles(f) == is_invocable_v(f, ArgList(T_ARGS))

\* Register<T_CALLABLE_V> is instantiated without an error
Compiles(f) == StaticAssert(f) /\ InvokeCompiles(f)

\* --------------------------------------- the bodies of thread_unsafe's calls
DoRegister(e) ==
    /\ Len(m_Delegates) < MaxEntries
    /\ absSeq' = Append(absSeq, e)
    /\ removedKeys' = removedKeys \ {e.m_pClass}
    /\ last' = Returned("Register", "none", e.m_pClass, << >>)

DoRegisterBound(f, inst) ==
    /\ m_Delegates' = RegisterBoundSeq(m_Delegates, f, inst)
    /\ DoRegister(info(BoundCallback(f), inst))

DoRegisterFree(f, pHandle) ==
    /\ Compiles(f)
    /\ m_Delegates' = RegisterFreeSeq(m_Delegates, f, pHandle)
    /\ DoRegister(info(FreeCallback(f), pHandle))

DoRemoveDelegates(pInstance) ==
    /\ m_Delegates' = RemoveDelegatesSeq(m_Delegates, pInstance)
    /\ absSeq' = Without(absSeq, pInstance)
    /\ removedKeys' = removedKeys \cup {pInstance}
    /\ last' = Returned("RemoveDelegates", "none", pInstance, m_Delegates)

\* a range-for that starts one entry late
DoNotifyBeginLate(t, a) ==
    /\ pc' = [pc EXCEPT ![t] = "notify"]
    /\ Args' = [Args EXCEPT ![t] = a]
    /\ it' = [it EXCEPT ![t] = IF m_Delegates = << >> THEN 1 ELSE 2]
    /\ itEnd' = [itEnd EXCEPT ![t] = Len(m_Delegates) + 1]
    /\ calls' = [calls EXCEPT ![t] = << >>]
    /\ passSeq' = [passSeq EXCEPT ![t] = m_Delegates]
    /\ passArg' = [passArg EXCEPT ![t] = a]

\* NotifyAll(T_ARGS... Args): the parameter is initialised and the range-for
\* takes begin() and end()
DoNotifyBegin(t, a) ==
    /\ pc' = [pc EXCEPT ![t] = "notify"]
    /\ Args' = [Args EXCEPT ![t] = a]
    /\ it' = [it EXCEPT ![t] = 1]
    /\ itEnd' = [itEnd EXCEPT ![t] = Len(m_Delegates) + 1]
    /\ calls' = [calls EXCEPT ![t] = << >>]
    /\ passSeq' = [passSeq EXCEPT ![t] = m_Delegates]
    /\ passArg' = [passArg EXCEPT ![t] = a]

\* NotifyAll returns: its parameter and the range-for's iterators are gone
LeaveNotifyAll(t) ==
    /\ Args' = [Args EXCEPT ![t] = Empty]
    /\ it' = [it EXCEPT ![t] = 1]
    /\ itEnd' = [itEnd EXCEPT ![t] = 1]

\* NotifyAll returned: the Register or RemoveDelegates before it stays on record
AfterNotifyAll ==
    Returned("NotifyAll", IF last.name = "NotifyAll" THEN last.prev ELSE last.name,
             last.key, last.before)

\* a new call by thread t: what was recorded of its previous pass is dropped
ForgetPass(t) ==
    /\ calls' = [calls EXCEPT ![t] = << >>]
    /\ passSeq' = [passSeq EXCEPT ![t] = << >>]
    /\ passArg' = [passArg EXCEPT ![t] = Empty]

\* --------------------------------------------------- thread_unsafe's calls
RegisterBound(f, inst) ==
    /\ ~terminated /\ pc[Main] = "idle"
    /\ DoRegisterBound(f, inst)
    /\ ForgetPass(Main)
    /\ UNCHANGED << pairVars, T_ARGS, rejected, buffer, m_Mutex, pc, op, nops, Args, it, itEnd, raised, terminated, inner >>

RegisterFree(f, pHandle) ==
    /\ ~terminated /\ pc[Main] = "idle"
    /\ DoRegisterFree(f, pHandle)
    /\ ForgetPass(Main)
    /\ UNCHANGED << pairVars, T_ARGS, rejected, buffer, m_Mutex, pc, op, nops, Args, it, itEnd, raised, terminated, inner >>

RemoveDelegates(pInstance) ==
    /\ ~terminated /\ pc[Main] = "idle"
    /\ DoRemoveDelegates(pInstance)
    /\ ForgetPass(Main)
    /\ UNCHANGED << pairVars, T_ARGS, rejected, buffer, m_Mutex, pc, op, nops, Args, it, itEnd, raised, terminated, inner >>

NotifyAll(a) ==
    /\ ~terminated /\ pc[Main] = "idle"
    /\ DoNotifyBegin(Main, a)
    /\ UNCHANGED << pairVars, T_ARGS, rejected, buffer, m_Delegates, m_Mutex, op, nops, raised, terminated, inner,
                    absSeq, removedKeys, last >>

\* one turn of the range-for: D.m_pCallback(D.m_pClass, forward(Args)...), the
\* callable returns
InvokeReturns(t) ==
    /\ ~terminated /\ pc[t] = "notify" /\ it[t] # itEnd[t]
    /\ it[t] <= Len(m_Delegates)
    /\ m_Delegates[it[t]].m_pCallback.fn \in Returning \cup MayThrow
    /\ calls' = [calls EXCEPT ![t] = Append(@, Invoked(m_Delegates[it[t]], Args[t]))]
    /\ \E v \in AfterForward(Args[t]) : Args' = [Args EXCEPT ![t] = v]
    /\ it' = [it EXCEPT ![t] = @ + 1]
    /\ UNCHANGED << pairVars, T_ARGS, rejected, buffer, m_Delegates, m_Mutex, pc, op, nops, itEnd, raised, terminated,
                    inner, absSeq, passSeq, passArg, removedKeys, last >>

\* the exception goes through NotifyAll to its caller, as it would were the
\* lambda and NotifyAll not noexcept
InvokeThrowsPropagates(t) ==
    /\ ~terminated /\ pc[t] = "notify" /\ it[t] # itEnd[t]
    /\ it[t] <= Len(m_Delegates)
    /\ m_Delegates[it[t]].m_pCallback.fn \in MayThrow
    /\ calls' = [calls EXCEPT ![t] = Append(@, Invoked(m_Delegates[it[t]], Args[t]))]
    /\ raised' = TRUE
    /\ pc' = [pc EXCEPT ![t] = "idle"]
    /\ LeaveNotifyAll(t)
    /\ UNCHANGED << pairVars, T_ARGS, rejected, buffer, m_Delegates, m_Mutex, op, nops, terminated,
                    inner, absSeq, passSeq, passArg, removedKeys, last >>

\* one turn of the range-for, the callable raises: the exception leaves the
\* noexcept lambda, and std::terminate is called
InvokeThrows(t) ==
    /\ ~terminated /\ pc[t] = "notify" /\ it[t] # itEnd[t]
    /\ it[t] <= Len(m_Delegates)
    /\ m_Delegates[it[t]].m_pCallback.fn \in MayThrow
    /\ calls' = [calls EXCEPT ![t] = Append(@, Invoked(m_Delegates[it[t]], Args[t]))]
    /\ raised' = TRUE
    /\ terminated' = TRUE
    /\ UNCHANGED << pairVars, T_ARGS, rejected, buffer, m_Delegates, m_Mutex, pc, op, nops, Args, it, itEnd,
                    inner, absSeq, passSeq, passArg, removedKeys, last >>

\* a NotifyAll that drops the entries it has notified
NotifyReturnClears ==
    /\ ~terminated /\ pc[Main] = "notify" /\ it[Main] = itEnd[Main]
    /\ pc' = [pc EXCEPT ![Main] = "idle"]
    /\ LeaveNotifyAll(Main)
    /\ m_Delegates' = << >>
    /\ last' = AfterNotifyAll
    /\ UNCHANGED << pairVars, T_ARGS, rejected, buffer, m_Mutex, op, nops, calls, raised, terminated, inner,
                    absSeq, passSeq, passArg, removedKeys >>

\* the range-for ends and NotifyAll returns
NotifyReturn ==
    /\ ~terminated /\ pc[Main] = "notify" /\ it[Main] = itEnd[Main]
    /\ pc' = [pc EXCEPT ![Main] = "idle"]
    /\ LeaveNotifyAll(Main)
    /\ last' = AfterNotifyAll
    /\ UNCHANGED << pairVars, T_ARGS, rejected, buffer, m_Delegates, m_Mutex, op, nops, calls, raised, terminated, inner,
                    absSeq, passSeq, passArg, removedKeys >>

\* ----------------------------------------------------- thread_safe's calls
\* a thread calls an operation of the thread_safe delegate; the first thing the
\* operation does is construct its std::lock_guard
SafeCall(t, o) ==
    /\ ~terminated /\ pc[t] = "idle" /\ nops[t] < MaxOps
    /\ pc' = [pc EXCEPT ![t] = "lock"]
    /\ op' = [op EXCEPT ![t] = o]
    /\ nops' = [nops EXCEPT ![t] = @ + 1]
    /\ ForgetPass(t)
    /\ UNCHANGED << pairVars, T_ARGS, rejected, buffer, m_Delegates, m_Mutex, Args, it, itEnd, raised, terminated, inner,
                    absSeq, removedKeys, last >>

\* a lock that lets a thread in while another holds it
CanLockAlways(t) == TRUE

\* std::mutex::lock by a thread that does not own it: blocks until it is free
CanLock(t) == m_Mutex = 0

\* an operation that goes on without its lock_guard
LockGuardMissing(t) ==
    /\ ~terminated /\ pc[t] = "lock"
    /\ pc' = [pc EXCEPT ![t] = "locked"]
    /\ UNCHANGED << pairVars, T_ARGS, rejected, buffer, m_Delegates, m_Mutex, op, nops, Args, it, itEnd, calls,
                    raised, terminated, inner, absSeq, passSeq, passArg, removedKeys,
                    last >>

\* std::lock_guard<std::mutex> lock(m_Mutex)
LockGuard(t) ==
    /\ ~terminated /\ pc[t] = "lock"
    /\ CanLock(t)
    /\ m_Mutex' = t
    /\ pc' = [pc EXCEPT ![t] = "locked"]
    /\ UNCHANGED << pairVars, T_ARGS, rejected, buffer, m_Delegates, op, nops, Args, it, itEnd, calls, raised, terminated,
                    inner, absSeq, passSeq, passArg, removedKeys, last >>

\* the lock_guard's destructor at the end of the operation's scope
Unlock(t) == m_Mutex' = IF m_Mutex = t THEN 0 ELSE m_Mutex

\* thread_safe::Register<T_FUNCTION_PTR_V>(ClassInstance), under the lock
SafeRegisterBound(t) ==
    /\ ~terminated /\ pc[t] = "locked" /\ op[t].name = "RegisterBound"
    /\ DoRegisterBound(op[t].cb, op[t].key)
    /\ Unlock(t)
    /\ pc' = [pc EXCEPT ![t] = "idle"]
    /\ UNCHANGED << pairVars, T_ARGS, rejected, buffer, op, nops, Args, it, itEnd, calls, raised, terminated, inner,
                    passSeq, passArg >>

\* a Register that does not wait for the lock: it appends as soon as it is called
SafeRegisterFreeUnlocked(t) ==
    /\ ~terminated /\ pc[t] \in {"lock", "locked"} /\ op[t].name = "RegisterFree"
    /\ DoRegisterFree(op[t].cb, op[t].key)
    /\ Unlock(t)
    /\ pc' = [pc EXCEPT ![t] = "idle"]
    /\ UNCHANGED << pairVars, T_ARGS, rejected, buffer, op, nops, Args, it, itEnd, calls, raised, terminated, inner,
                    passSeq, passArg >>

\* thread_safe::Register<T_CALLABLE_V>(pHandle), under the lock
SafeRegisterFree(t) ==
    /\ ~terminated /\ pc[t] = "locked" /\ op[t].name = "RegisterFree"
    /\ DoRegisterFree(op[t].cb, op[t].key)
    /\ Unlock(t)
    /\ pc' = [pc EXCEPT ![t] = "idle"]
    /\ UNCHANGED << pairVars, T_ARGS, rejected, buffer, op, nops, Args, it, itEnd, calls, raised, terminated, inner,
                    passSeq, passArg >>

\* thread_safe::RemoveDelegates(pInstance), under the lock
SafeRemoveDelegates(t) ==
    /\ ~terminated /\ pc[t] = "locked" /\ op[t].name = "RemoveDelegates"
    /\ DoRemoveDelegates(op[t].key)
    /\ Unlock(t)
    /\ pc' = [pc EXCEPT ![t] = "idle"]
    /\ UNCHANGED << pairVars, T_ARGS, rejected, buffer, op, nops, Args, it, itEnd, calls, raised, terminated, inner,
                    passSeq, passArg >>

\* a NotifyAll whose lock_guard is a temporary: the mutex is free again before
\* thread_unsafe::NotifyAll is entered
SafeNotifyAllUnguarded(t) ==
    /\ ~terminated /\ pc[t] = "locked" /\ op[t].name = "NotifyAll"
    /\ DoNotifyBegin(t, op[t].arg)
    /\ Unlock(t)
    /\ UNCHANGED << pairVars, T_ARGS, rejected, buffer, m_Delegates, op, nops, raised, terminated, inner,
                    absSeq, removedKeys, last >>

\* thread_safe::NotifyAll(Args...), under the lock: thread_unsafe::NotifyAll
\* is entered with the forwarded arguments
SafeNotifyAll(t) ==
    /\ ~terminated /\ pc[t] = "locked" /\ op[t].name = "NotifyAll"
    /\ DoNotifyBegin(t, op[t].arg)
    /\ UNCHANGED << pairVars, T_ARGS, rejected, buffer, m_Delegates, m_Mutex, op, nops, raised, terminated, inner,
                    absSeq, removedKeys, last >>

\* a recursive mutex: the callable's call locks again, runs and returns
InvokeReentersRecursive(t) ==
    /\ ~terminated /\ pc[t] = "notify" /\ it[t] # itEnd[t]
    /\ it[t] <= Len(m_Delegates)
    /\ m_Mutex = t
    /\ m_Delegates[it[t]].m_pCallback.fn \in Reentrant
    /\ calls' = [calls EXCEPT ![t] = Append(@, Invoked(m_Delegates[it[t]], Args[t]))]
    /\ inner' = [inner EXCEPT ![t] = "RemoveDelegates"]
    /\ m_Delegates' = RemoveDelegatesSeq(m_Delegates, NULL)
    /\ absSeq' = Without(absSeq, NULL)
    /\ it' = [it EXCEPT ![t] = @ + 1]
    /\ UNCHANGED << pairVars, T_ARGS, rejected, buffer, m_Mutex, pc, op, nops, Args, itEnd, raised, terminated,
                    passSeq, passArg, removedKeys, last >>

\* std::mutex::lock by the thread that owns the mutex is undefined: the thread
\* blocks on itself for ever, or the library detects it and throws
\* std::system_error, which leaves a noexcept function: std::terminate
RelockOutcomes == {"deadlock", "system_error"}

\* one turn of the range-for, the callable calls an operation of the same
\* thread_safe delegate, whose lock_guard locks m_Mutex again
InvokeReenters(t) ==
    /\ ~terminated /\ pc[t] = "notify" /\ it[t] # itEnd[t]
    /\ it[t] <= Len(m_Delegates)
    /\ m_Mutex = t
    /\ m_Delegates[it[t]].m_pCallback.fn \in Reentrant
    /\ calls' = [calls EXCEPT ![t] = Append(@, Invoked(m_Delegates[it[t]], Args[t]))]
    /\ \E o \in OpNames : inner' = [inner EXCEPT ![t] = o]
    /\ \E outcome \in RelockOutcomes :
          IF outcome = "deadlock"
          THEN pc' = [pc EXCEPT ![t] = "selfblocked"] /\ UNCHANGED terminated
          ELSE terminated' = TRUE /\ UNCHANGED pc
    /\ UNCHANGED << pairVars, T_ARGS, rejected, buffer, m_Delegates, m_Mutex, op, nops, Args, it, itEnd, raised,
                    absSeq, passSeq, passArg, removedKeys, last >>

\* a NotifyAll that returns without its lock_guard unlocking
SafeNotifyReturnKeepsLock(t) ==
    /\ ~terminated /\ pc[t] = "notify" /\ it[t] = itEnd[t]
    /\ m_Mutex = t
    /\ pc' = [pc EXCEPT ![t] = "idle"]
    /\ LeaveNotifyAll(t)
    /\ last' = AfterNotifyAll
    /\ UNCHANGED << pairVars, T_ARGS, rejected, buffer, m_Delegates, m_Mutex, op, nops, calls, raised, terminated,
                    inner, absSeq, passSeq, passArg, removedKeys >>

\* the range-for ends, thread_unsafe::NotifyAll returns, the lock_guard unlocks
SafeNotifyReturn(t) ==
    /\ ~terminated /\ pc[t] = "notify" /\ it[t] = itEnd[t]
    /\ m_Mutex = t
    /\ pc' = [pc EXCEPT ![t] = "idle"]
    /\ LeaveNotifyAll(t)
    /\ Unlock(t)
    /\ last' = AfterNotifyAll
    /\ UNCHANGED << pairVars, T_ARGS, rejected, buffer, m_Delegates, op, nops, calls, raised, terminated, inner,
                    absSeq, passSeq, passArg, removedKeys >>

\* a thread_safe<int>
SafeInit == Init /\ T_ARGS = "int"

SafeNext ==
    \/ \E t \in Threads, o \in SafeCalls : SafeCall(t, o)
    \/ \E t \in Threads : LockGuard(t)
    \/ \E t \in Threads : SafeRegisterBound(t)
    \/ \E t \in Threads : SafeRegisterFree(t)
    \/ \E t \in Threads : SafeRemoveDelegates(t)
    \/ \E t \in Threads : SafeNotifyAll(t)
    \/ \E t \in Threads : InvokeReturns(t)
    \/ \E t \in Threads : InvokeReenters(t)
    \/ \E t \in Threads : SafeNotifyReturn(t)

SpecSafe == SafeInit /\ [][SafeNext]_vars

\* ------------------- thread_safe with callbacks that return, scheduled fairly
\* the Register calls that were made and have not appended yet
PendingRegisters ==
    Cardinality({t \in Threads : /\ pc[t] \in {"lock", "locked"}
                                 /\ op[t].name \in {"RegisterBound", "RegisterFree"}})

\* the calls of the threads of the fair specification: one instance and one
\* callable that returns are registered and removed, one value is notified
LiveCalls ==
    {Call("RegisterBound", "OnEvent", 1, Empty), Call("RegisterFree", "Print", NULL, Empty),
     Call("RemoveDelegates", "none", 1, Empty), Call("RemoveDelegates", "none", NULL, Empty),
     Call("NotifyAll", "none", NULL, 1)}

\* a call whose callable, if it registers one, returns and does not call the
\* delegate; Register is called while the vector has room for its entry
TerminatingCall(t, o) ==
    /\ o.cb \notin Reentrant
    /\ o.name \in {"RegisterBound", "RegisterFree"} =>
          Len(m_Delegates) + PendingRegisters < MaxEntries
    /\ SafeCall(t, o)

\* what a thread does once it is inside an operation: it runs to the return
RunsOn(t) ==
    \/ SafeRegisterBound(t)
    \/ SafeRegisterFree(t)
    \/ SafeRemoveDelegates(t)
    \/ SafeNotifyAll(t)
    \/ InvokeReturns(t)
    \/ SafeNotifyReturn(t)

LiveNext ==
    \/ \E t \in Threads, o \in LiveCalls : TerminatingCall(t, o)
    \/ \E t \in Threads : LockGuard(t)
    \/ \E t \in Threads : RunsOn(t)

\* a thread inside an operation keeps running, and a thread waiting for the
\* mutex gets it if it is free again and again (fair lock acquisition); no
\* thread is obliged to make another call
Fairness ==
    \A t \in Threads : WF_vars(RunsOn(t)) /\ SF_vars(LockGuard(t))

SpecSafeLive == SafeInit /\ [][LiveNext]_vars /\ Fairness

\* ------------------- thread_safe : thread_unsafe, the inherited public members
\* thread_safe derives publicly from thread_unsafe: a thread holding a
\* thread_safe can call thread_unsafe::Register on it (through a reference to
\* the base, or qualified), and no lock is taken.  When another thread is
\* inside an operation the two race, which is undefined: the call takes effect
\* between two steps of the other thread, or the program crashes.
BaseRegisterFree(t, f, pHandle) ==
    /\ ~terminated /\ pc[t] = "idle" /\ nops[t] < MaxOps
    /\ \/ /\ DoRegisterFree(f, pHandle)
          /\ UNCHANGED terminated
       \/ /\ m_Mutex # 0
          /\ terminated' = TRUE
          /\ UNCHANGED << m_Delegates, absSeq, removedKeys, last >>
    /\ nops' = [nops EXCEPT ![t] = @ + 1]
    /\ ForgetPass(t)
    /\ UNCHANGED << pairVars, T_ARGS, rejected, buffer, m_Mutex, pc, op, Args, it, itEnd, raised, inner >>

\* thread_unsafe::RemoveDelegates called on a thread_safe, no lock taken
BaseRemoveDelegates(t, pInstance) ==
    /\ ~terminated /\ pc[t] = "idle" /\ nops[t] < MaxOps
    /\ \/ /\ DoRemoveDelegates(pInstance)
          /\ UNCHANGED terminated
       \/ /\ m_Mutex # 0
          /\ terminated' = TRUE
          /\ UNCHANGED << m_Delegates, absSeq, removedKeys, last >>
    /\ nops' = [nops EXCEPT ![t] = @ + 1]
    /\ ForgetPass(t)
    /\ UNCHANGED << pairVars, T_ARGS, rejected, buffer, m_Mutex, pc, op, Args, it, itEnd, raised, inner >>

\* a pass whose iterator is left behind the end of a vector that shrank under
\* it: the read is outside the sequence, which is undefined; the program
\* crashes, or the entry the erase left in the storage is invoked
InvokePastEnd(t) ==
    /\ ~terminated /\ pc[t] = "notify" /\ it[t] # itEnd[t]
    /\ it[t] > Len(m_Delegates)
    /\ \/ /\ terminated' = TRUE
          /\ UNCHANGED << calls, it >>
       \/ /\ it[t] <= Len(passSeq[t])
          /\ calls' = [calls EXCEPT ![t] = Append(@, Invoked(passSeq[t][it[t]], Args[t]))]
          /\ it' = [it EXCEPT ![t] = @ + 1]
          /\ UNCHANGED terminated
    /\ UNCHANGED << pairVars, T_ARGS, rejected, buffer, m_Delegates, m_Mutex, pc, op, nops, Args, itEnd, raised,
                    inner, absSeq, passSeq, passArg, removedKeys, last >>

ExposedNext ==
    \/ SafeNext
    \/ \E t \in Threads, f \in BaseFree, h \in SafeHandles : BaseRegisterFree(t, f, h)
    \/ \E t \in Threads, k \in SafeHandles : BaseRemoveDelegates(t, k)
    \/ \E t \in Threads : InvokePastEnd(t)

SpecExposed == SafeInit /\ [][ExposedNext]_vars

\* -------------------------------------------- Register call sites, compiled
\* a call site Register<f>(pHandle) on a thread_unsafe<T_ARGS...>: where
\* the instantiation compiles the call appends its entry, where it does not
\* there is no entry and no program
BindRegisterFree(f, pHandle) ==
    /\ ~terminated /\ pc[Main] = "idle"
    /\ IF Compiles(f)
       THEN DoRegisterFree(f, pHandle) /\ UNCHANGED rejected
       ELSE /\ rejected' = rejected \cup {f}
            /\ UNCHANGED << m_Delegates, absSeq, removedKeys, last >>
    /\ ForgetPass(Main)
    /\ UNCHANGED << pairVars, T_ARGS, buffer, m_Mutex, pc, op, nops, Args, it, itEnd, raised, terminated,
                    inner >>

BindInit == T_ARGS \in BindArgTypes /\ Constructed /\ PairIdle

BindNext ==
    \/ \E f \in BindCallables, h \in Handles : BindRegisterFree(f, h)
    \/ \E k \in Handles : RemoveDelegates(k)

SpecBind == BindInit /\ [][BindNext]_vars

\* -------------------- thread_unsafe with callbacks that call the delegate
\* the array after a RemoveDelegates made under a pass: remove_if moves the
\* entries it keeps down inside the array and erase ends the vector earlier;
\* what lies behind the new end stays in the array.  An array that was freed
\* is not the vector's any more and is not written
AfterRemove(b, D, pInstance) ==
    IF b.freed THEN b
    ELSE Buffer(remove_if(D, pInstance).seq \o SubSeq(b.mem, Len(D) + 1, Len(b.mem)),
                FALSE)

\* the array after a push_back made under a pass.  Behind an erase there is
\* capacity left and the entry is written after the last one; otherwise the
\* growth policy decides: the entry is written in place, or the vector moves
\* to a new array and the one the pass iterates is freed
AfterPushBack(b, D, e) ==
    IF b.freed THEN {b}
    ELSE IF Len(D) < Len(b.mem) THEN {Buffer([b.mem EXCEPT ![Len(D) + 1] = e], FALSE)}
    ELSE {Buffer(Append(b.mem, e), FALSE), Buffer(b.mem, TRUE)}

\* *it, read from the array the iterator points into
Fetch(t) == buffer.mem[it[t]]

\* the iterator points into a freed array or behind the vector's end
InvalidIterator(t) == buffer.freed \/ it[t] > Len(m_Delegates)

\* NotifyAll(Args...): the range-for takes begin() and end() of the array
ReentryNotifyAll(a) ==
    /\ ~terminated /\ pc[Main] = "idle"
    /\ DoNotifyBegin(Main, a)
    /\ buffer' = Buffer(m_Delegates, FALSE)
    /\ inner' = [inner EXCEPT ![Main] = "none"]
    /\ UNCHANGED << pairVars, T_ARGS, rejected, m_Delegates, m_Mutex, op, nops, raised, terminated,
                    absSeq, removedKeys, last >>

\* one turn of the range-for, the callable returns
ReentryInvokeReturns(t) ==
    /\ ~terminated /\ pc[t] = "notify" /\ it[t] # itEnd[t]
    /\ Fetch(t).m_pCallback.fn \in Returning
    /\ calls' = [calls EXCEPT ![t] = Append(@, Invoked(Fetch(t), Args[t]))]
    /\ \E v \in AfterForward(Args[t]) : Args' = [Args EXCEPT ![t] = v]
    /\ it' = [it EXCEPT ![t] = @ + 1]
    /\ UNCHANGED << pairVars, T_ARGS, rejected, buffer, m_Delegates, m_Mutex, pc, op, nops, itEnd,
                    raised, terminated, inner, absSeq, passSeq, passArg, removedKeys,
                    last >>

\* a callback whose RemoveDelegates is put off until the pass has returned
InvokeUnsubscribesDeferred(t) ==
    /\ ~terminated /\ pc[t] = "notify" /\ it[t] # itEnd[t]
    /\ Fetch(t).m_pCallback.fn \in Unsubscribing
    /\ calls' = [calls EXCEPT ![t] = Append(@, Invoked(Fetch(t), Args[t]))]
    /\ inner' = [inner EXCEPT ![t] = "RemoveDelegates"]
    /\ \E v \in AfterForward(Args[t]) : Args' = [Args EXCEPT ![t] = v]
    /\ it' = [it EXCEPT ![t] = @ + 1]
    /\ UNCHANGED << pairVars, T_ARGS, rejected, buffer, m_Delegates, m_Mutex, pc, op, nops, itEnd,
                    raised, terminated, absSeq, passSeq, passArg, removedKeys, last >>

\* one turn of the range-for, the member function calls RemoveDelegates(this)
\* on the delegate that is notifying it: the vector is changed at once, the
\* range-for keeps the iterators it has
InvokeUnsubscribes(t) ==
    /\ ~terminated /\ pc[t] = "notify" /\ it[t] # itEnd[t]
    /\ Fetch(t).m_pCallback.fn \in Unsubscribing
    /\ calls' = [calls EXCEPT ![t] = Append(@, Invoked(Fetch(t), Args[t]))]
    /\ DoRemoveDelegates(Fetch(t).m_pClass)
    /\ buffer' = AfterRemove(buffer, m_Delegates, Fetch(t).m_pClass)
    /\ inner' = [inner EXCEPT ![t] = "RemoveDelegates"]
    /\ \E v \in AfterForward(Args[t]) : Args' = [Args EXCEPT ![t] = v]
    /\ it' = [it EXCEPT ![t] = @ + 1]
    /\ UNCHANGED << pairVars, T_ARGS, rejected, m_Mutex, pc, op, nops, itEnd, raised, terminated,
                    passSeq, passArg >>

\* one turn of the range-for, the callable calls Register<Print>() on the
\* delegate that is notifying it
InvokeSubscribes(t) ==
    /\ ~terminated /\ pc[t] = "notify" /\ it[t] # itEnd[t]
    /\ Fetch(t).m_pCallback.fn \in Subscribing
    /\ calls' = [calls EXCEPT ![t] = Append(@, Invoked(Fetch(t), Args[t]))]
    /\ DoRegisterFree("Print", NULL)
    /\ \E b \in AfterPushBack(buffer, m_Delegates, info(FreeCallback("Print"), NULL)) :
          buffer' = b
    /\ inner' = [inner EXCEPT ![t] = "Register"]
    /\ \E v \in AfterForward(Args[t]) : Args' = [Args EXCEPT ![t] = v]
    /\ it' = [it EXCEPT ![t] = @ + 1]
    /\ UNCHANGED << pairVars, T_ARGS, rejected, m_Mutex, pc, op, nops, itEnd, raised, terminated,
                    passSeq, passArg >>

\* reading through an iterator that a reallocation or an erase has invalidated
\* is undefined: the turns above are the build that goes on with what the
\* array holds, this is the build that stops (checked iterators, a fault)
InvalidIteratorFaults(t) ==
    /\ ~terminated /\ pc[t] = "notify" /\ it[t] # itEnd[t]
    /\ InvalidIterator(t)
    /\ terminated' = TRUE
    /\ UNCHANGED << pairVars, T_ARGS, rejected, buffer, m_Delegates, m_Mutex, pc, op, nops, Args, it,
                    itEnd, calls, raised, inner, absSeq, passSeq, passArg, removedKeys,
                    last >>

\* the range-for ends and NotifyAll returns
ReentryNotifyReturn ==
    /\ ~terminated /\ pc[Main] = "notify" /\ it[Main] = itEnd[Main]
    /\ pc' = [pc EXCEPT ![Main] = "idle"]
    /\ LeaveNotifyAll(Main)
    /\ buffer' = NoBuffer
    /\ last' = AfterNotifyAll
    /\ UNCHANGED << pairVars, T_ARGS, rejected, m_Delegates, m_Mutex, op, nops, calls, raised,
                    terminated, inner, absSeq, passSeq, passArg, removedKeys >>

\* a thread_unsafe<int>
ReentryInit == Init /\ T_ARGS = "int"

ReentryNext ==
    \/ \E f \in ReentryMembers, inst \in Instances : RegisterBound(f, inst)
    \/ \E f \in ReentryFree, h \in SafeHandles : RegisterFree(f, h)
    \/ \E k \in Instances \cup SafeHandles : RemoveDelegates(k)
    \/ \E a \in ArgValues : ReentryNotifyAll(a)
    \/ ReentryInvokeReturns(Main)
    \/ InvokeUnsubscribes(Main)
    \/ InvokeSubscribes(Main)
    \/ InvalidIteratorFaults(Main)
    \/ ReentryNotifyReturn

SpecReentry == ReentryInit /\ [][ReentryNext]_vars

\* ------------------- two thread_safe delegates whose callbacks call each other
\* A and B are two thread_safe<int> objects, each with its own m_Delegates and
\* its own m_Mutex.  "Print" returns; "NotifyOther", registered with a delegate,
\* calls NotifyAll on the other one, "RemoveOther" calls RemoveDelegates on it.
Other(d) == IF d = "A" THEN "B" ELSE "A"

\* the entries: Print is registered with a handle, the others without
PairEntry(f) == info(FreeCallback(f), IF f = "Print" THEN 2 ELSE NULL)

\* what the two delegates hold when the threads start: up to two entries each
PairVectors == UNION {[1 .. n -> {PairEntry(f) : f \in PairCallables}] : n \in 0 .. 2}

\* the operation of the other delegate a callable calls
CalledOp(f) == IF f = "NotifyOther" THEN "NotifyAll" ELSE "RemoveDelegates"

\* *it of the pass on the delegate the thread called, and of the pass its
\* callback makes on the other one
OuterEntry(t) == m_DelegatesOf[frame[t].d][frame[t].it]

InnerEntry(t) == m_DelegatesOf[Other(frame[t].d)][frame[t].innerIt]

\* ~std::lock_guard on the mutex of d
UnlockOf(t, d) == [m_MutexOf EXCEPT ![d] = IF @ = t THEN 0 ELSE @]

\* a thread calls d.NotifyAll(Args...); the lock_guard comes first
PairCall(t, d) ==
    /\ ~terminated /\ frame[t].pc = "idle" /\ frame[t].made < MaxOps
    /\ frame' = [frame EXCEPT ![t] = [@ EXCEPT !.pc = "lock", !.d = d, !.made = @ + 1]]
    /\ UNCHANGED << soloVars, terminated, m_DelegatesOf, m_MutexOf >>

\* std::lock_guard<std::mutex> lock(m_Mutex) of the delegate called
PairLockGuard(t) ==
    /\ ~terminated /\ frame[t].pc = "lock"
    /\ m_MutexOf[frame[t].d] = 0
    /\ m_MutexOf' = [m_MutexOf EXCEPT ![frame[t].d] = t]
    /\ frame' = [frame EXCEPT ![t] = [@ EXCEPT !.pc = "locked"]]
    /\ UNCHANGED << soloVars, terminated, m_DelegatesOf >>

\* a NotifyAll that copies the entries and frees the mutex before it invokes them
PairNotifyAllUnlocks(t) ==
    /\ ~terminated /\ frame[t].pc = "locked"
    /\ frame' = [frame EXCEPT ![t] =
                    [@ EXCEPT !.pc = "notify", !.it = 1,
                              !.itEnd = Len(m_DelegatesOf[frame[t].d]) + 1]]
    /\ m_MutexOf' = UnlockOf(t, frame[t].d)
    /\ UNCHANGED << soloVars, terminated, m_DelegatesOf >>

\* thread_unsafe::NotifyAll is entered under the lock: begin() and end()
PairNotifyAll(t) ==
    /\ ~terminated /\ frame[t].pc = "locked"
    /\ frame' = [frame EXCEPT ![t] =
                    [@ EXCEPT !.pc = "notify", !.it = 1,
                              !.itEnd = Len(m_DelegatesOf[frame[t].d]) + 1]]
    /\ UNCHANGED << soloVars, terminated, m_DelegatesOf, m_MutexOf >>

\* one turn of the range-for, the callable returns
PairInvokeReturns(t) ==
    /\ ~terminated /\ frame[t].pc = "notify" /\ frame[t].it # frame[t].itEnd
    /\ OuterEntry(t).m_pCallback.fn \in Returning
    /\ frame' = [frame EXCEPT ![t] = [@ EXCEPT !.it = @ + 1]]
    /\ UNCHANGED << soloVars, terminated, m_DelegatesOf, m_MutexOf >>

\* one turn of the range-for, the callable calls an operation of the other
\* delegate, which constructs its lock_guard first
PairInvokeCallsOther(t) ==
    /\ ~terminated /\ frame[t].pc = "notify" /\ frame[t].it # frame[t].itEnd
    /\ OuterEntry(t).m_pCallback.fn \in CallsOther
    /\ frame' = [frame EXCEPT ![t] =
                    [@ EXCEPT !.pc = "innerlock", !.op = CalledOp(OuterEntry(t).m_pCallback.fn)]]
    /\ UNCHANGED << soloVars, terminated, m_DelegatesOf, m_MutexOf >>

\* std::lock_guard<std::mutex> lock(m_Mutex) of the other delegate
InnerLockGuard(t) ==
    /\ ~terminated /\ frame[t].pc = "innerlock"
    /\ m_MutexOf[Other(frame[t].d)] = 0
    /\ m_MutexOf' = [m_MutexOf EXCEPT ![Other(frame[t].d)] = t]
    /\ frame' = [frame EXCEPT ![t] = [@ EXCEPT !.pc = "innerlocked"]]
    /\ UNCHANGED << soloVars, terminated, m_DelegatesOf >>

\* the other delegate's RemoveDelegates under its lock; it returns, and so
\* does the callable that called it
InnerRemoveDelegates(t) ==
    /\ ~terminated /\ frame[t].pc = "innerlocked" /\ frame[t].op = "RemoveDelegates"
    /\ m_DelegatesOf' = [m_DelegatesOf EXCEPT ![Other(frame[t].d)] = RemoveDelegatesSeq(@, 2)]
    /\ m_MutexOf' = UnlockOf(t, Other(frame[t].d))
    /\ frame' = [frame EXCEPT ![t] =
                    [@ EXCEPT !.pc = "notify", !.op = "none", !.it = @ + 1,
                              !.crossed = @ + 1]]
    /\ UNCHANGED << soloVars, terminated >>

\* the other delegate's NotifyAll under its lock: begin() and end()
InnerNotifyAll(t) ==
    /\ ~terminated /\ frame[t].pc = "innerlocked" /\ frame[t].op = "NotifyAll"
    /\ frame' = [frame EXCEPT ![t] =
                    [@ EXCEPT !.pc = "innernotify", !.innerIt = 1,
                              !.innerEnd = Len(m_DelegatesOf[Other(frame[t].d)]) + 1]]
    /\ UNCHANGED << soloVars, terminated, m_DelegatesOf, m_MutexOf >>

\* one turn of the other delegate's range-for, the callable returns
InnerInvokeReturns(t) ==
    /\ ~terminated /\ frame[t].pc = "innernotify" /\ frame[t].innerIt # frame[t].innerEnd
    /\ InnerEntry(t).m_pCallback.fn \in Returning
    /\ frame' = [frame EXCEPT ![t] = [@ EXCEPT !.innerIt = @ + 1]]
    /\ UNCHANGED << soloVars, terminated, m_DelegatesOf, m_MutexOf >>

\* one turn of the other delegate's range-for, the callable calls back into the
\* delegate the thread called first, whose mutex the thread owns: the relock
InnerInvokeReenters(t) ==
    /\ ~terminated /\ frame[t].pc = "innernotify" /\ frame[t].innerIt # frame[t].innerEnd
    /\ InnerEntry(t).m_pCallback.fn \in CallsOther
    /\ m_MutexOf[frame[t].d] = t
    /\ \E outcome \in RelockOutcomes :
          IF outcome = "deadlock"
          THEN /\ frame' = [frame EXCEPT ![t] = [@ EXCEPT !.pc = "selfblocked"]]
               /\ UNCHANGED terminated
          ELSE terminated' = TRUE /\ UNCHANGED frame
    /\ UNCHANGED << soloVars, m_DelegatesOf, m_MutexOf >>

\* the other delegate's NotifyAll returns and unlocks; the callable returns
InnerNotifyReturn(t) ==
    /\ ~terminated /\ frame[t].pc = "innernotify" /\ frame[t].innerIt = frame[t].innerEnd
    /\ m_MutexOf' = UnlockOf(t, Other(frame[t].d))
    /\ frame' = [frame EXCEPT ![t] =
                    [@ EXCEPT !.pc = "notify", !.op = "none", !.it = @ + 1,
                              !.innerIt = 1, !.innerEnd = 1, !.crossed = @ + 1]]
    /\ UNCHANGED << soloVars, terminated, m_DelegatesOf >>

\* the range-for ends, NotifyAll returns and its lock_guard unlocks
PairNotifyReturn(t) ==
    /\ ~terminated /\ frame[t].pc = "notify" /\ frame[t].it = frame[t].itEnd
    /\ m_MutexOf' = UnlockOf(t, frame[t].d)
    /\ frame' = [frame EXCEPT ![t] = [NoFrame EXCEPT !.made = frame[t].made]]
    /\ UNCHANGED << soloVars, terminated, m_DelegatesOf >>

\* what a thread does between a lock and the next lock or the return
PairRunsOn(t) ==
    \/ PairNotifyAll(t)
    \/ PairInvokeReturns(t)
    \/ PairInvokeCallsOther(t)
    \/ InnerRemoveDelegates(t)
    \/ InnerNotifyAll(t)
    \/ InnerInvokeReturns(t)
    \/ InnerInvokeReenters(t)
    \/ InnerNotifyReturn(t)
    \/ PairNotifyReturn(t)

\* entries were registered with both delegates before the threads start
PairInit ==
    /\ T_ARGS = "int" /\ Constructed
    /\ m_DelegatesOf \in [Delegates -> PairVectors]
    /\ m_MutexOf = [d \in Delegates |-> 0]
    /\ frame = [t \in Threads |-> NoFrame]

PairNext ==
    \/ \E t \in Threads, d \in Delegates : PairCall(t, d)
    \/ \E t \in Threads : PairLockGuard(t)
    \/ \E t \in Threads : InnerLockGuard(t)
    \/ \E t \in Threads : PairRunsOn(t)

\* a running thread keeps running; a thread waiting for a mutex gets it if it
\* is free again and again
PairFairness ==
    \A t \in Threads :
        WF_vars(PairRunsOn(t)) /\ SF_vars(PairLockGuard(t)) /\ SF_vars(InnerLockGuard(t))

SpecPair == PairInit /\ [][PairNext]_vars /\ PairFairness

Next ==
    \/ \E f \in MemberFuncs, inst \in Instances : RegisterBound(f, inst)
    \/ \E f \in UnsafeFree, h \in Handles : RegisterFree(f, h)
    \/ \E k \in Keys : RemoveDelegates(k)
    \/ \E a \in ArgValues : NotifyAll(a)
    \/ InvokeReturns(Main)
    \/ InvokeThrows(Main)
    \/ NotifyReturn

Spec == Init /\ [][Next]_vars

\* =================================================================== claims
\* what a vector of entries, and what a pass's record, says was to be called
Targets(S) == [i \in 1 .. Len(S) |-> [cb |-> S[i].m_pCallback, ctx |-> S[i].m_pClass]]

CallTargets(C) == [i \in 1 .. Len(C) |-> [cb |-> C[i].cb, ctx |-> C[i].ctx]]

Count(S, x) == Cardinality({i \in 1 .. Len(S) : S[i] = x})

CountKey(S, key) == Cardinality({i \in 1 .. Len(S) : S[i].m_pClass = key})

\* thread_unsafe: NotifyAll has just returned to its caller
PassReturned == pc[Main] = "idle" /\ last.name = "NotifyAll" /\ ~terminated

\* C1: after any registrations, one NotifyAll invokes every registered entry
\* exactly once and in registration order: while the pass runs it has invoked
\* the first it-1 registrations, in order, and when it returns it has invoked
\* all of them, each at its own position; on an empty delegate the pass has
\* nothing to invoke, does not fail and returns.
C1_NotifyAllOnceEachInOrder ==
    /\ (pc[Main] = "notify" /\ ~terminated) =>
          /\ it[Main] <= itEnd[Main]
          /\ CallTargets(calls[Main]) = SubSeq(Targets(absSeq), 1, it[Main] - 1)
          /\ (absSeq = << >> => it[Main] = itEnd[Main] /\ calls[Main] = << >>)
    /\ PassReturned =>
          /\ Len(calls[Main]) = Len(absSeq)
          /\ \A i \in 1 .. Len(absSeq) :
                /\ calls[Main][i].cb = absSeq[i].m_pCallback
                /\ calls[Main][i].ctx = absSeq[i].m_pClass

\* a pass over three registrations, bound and free mixed, has returned
C1_Witness ==
    /\ PassReturned
    /\ Len(calls[Main]) = 3
    /\ \E i, j \in 1 .. 3 :
          calls[Main][i].cb.kind = "bound" /\ calls[Main][j].cb.kind = "free"
    /\ last.prev = "Register"

\* C2 (as claimed): every callback of a pass, the first and every later one,
\* receives the value the caller passed to NotifyAll.
C2_EveryCallbackGetsTheCallersValue ==
    \A t \in Threads : \A i \in 1 .. Len(calls[t]) : calls[t][i].arg = passArg[t]

\* C3: RemoveDelegates(key) removes every entry whose key equals key and no
\* other; the survivors keep their contents and their relative order.
C3_RemoveAllAndOnlyKey ==
    last.name = "RemoveDelegates" =>
        /\ m_Delegates = SelectSeq(last.before, LAMBDA e : e.m_pClass # last.key)
        /\ \A i \in 1 .. Len(m_Delegates) : m_Delegates[i].m_pClass # last.key
        /\ Len(m_Delegates) = Len(last.before) - CountKey(last.before, last.key)

\* two entries with the key, around one without it, and the one is what is left
C3_Witness ==
    /\ last.name = "RemoveDelegates"
    /\ Len(last.before) = 3
    /\ last.before[1].m_pClass = last.key
    /\ last.before[2].m_pClass # last.key
    /\ last.before[3].m_pClass = last.key
    /\ m_Delegates = << last.before[2] >>

\* C4: once RemoveDelegates(key) has returned, no pass invokes an entry with
\* that key until the key is registered again, and a pass that follows a
\* RemoveDelegates invokes exactly the entries of other keys that were there
\* before it, in their order.
C4_RemovedNeverInvoked ==
    /\ \A i \in 1 .. Len(calls[Main]) : calls[Main][i].ctx \notin removedKeys
    /\ (PassReturned /\ last.prev = "RemoveDelegates") =>
          /\ CallTargets(calls[Main]) =
                Targets(SelectSeq(last.before, LAMBDA e : e.m_pClass # last.key))
          /\ \A i \in 1 .. Len(calls[Main]) : calls[Main][i].ctx # last.key

\* A.OnEvent bound to A and Print with a handle were registered, the handle was
\* removed, and the pass that followed invoked A.OnEvent only
C4_Witness ==
    /\ PassReturned /\ last.prev = "RemoveDelegates"
    /\ Len(last.before) = 2
    /\ last.before[1].m_pCallback = BoundCallback("OnEvent")
    /\ last.before[2].m_pCallback = FreeCallback("Print")
    /\ last.key = last.before[2].m_pClass
    /\ last.key # last.before[1].m_pClass
    /\ Len(calls[Main]) = 1
    /\ calls[Main][1].cb = BoundCallback("OnEvent")

\* C8 (as claimed): a failure raised in a callback reaches the caller of
\* NotifyAll, who regains control.
C8_FailureReachesTheCaller == raised => ~terminated

\* C8 (amended): an exception a callback lets out never reaches the caller of
\* NotifyAll: it leaves a noexcept function, std::terminate is called and
\* nothing runs after it; the callbacks after the failing one were not invoked,
\* what the earlier ones did stays, and the vector is as the pass found it.
C8_FailureTerminates ==
    /\ [](raised =>
            /\ terminated
            /\ pc[Main] = "notify"
            /\ Len(calls[Main]) = it[Main]
            /\ CallTargets(calls[Main]) = SubSeq(Targets(passSeq[Main]), 1, it[Main])
            /\ calls[Main][it[Main]].cb.fn \in MayThrow
            /\ m_Delegates = passSeq[Main])
    /\ [][~terminated]_vars

\* the second of three callbacks raised: one ran before it, one never ran
C8_Witness ==
    /\ raised /\ terminated
    /\ Len(passSeq[Main]) = 3 /\ it[Main] = 2
    /\ Len(calls[Main]) = 2

\* C10: registering the same bound callable for the same instance again adds
\* one more entry whatever the vector holds; a pass invokes each entry as many
\* times as it is registered; RemoveDelegates leaves no entry with its key.
C10_DuplicatesAreSeparateEntries ==
    /\ [][\A f \in MemberFuncs, inst \in Instances :
            RegisterBound(f, inst) =>
               /\ Len(m_Delegates') = Len(m_Delegates) + 1
               /\ Count(m_Delegates', info(BoundCallback(f), inst))
                     = Count(m_Delegates, info(BoundCallback(f), inst)) + 1]_vars
    /\ [](PassReturned =>
            \A e \in {m_Delegates[i] : i \in 1 .. Len(m_Delegates)} :
               Count(CallTargets(calls[Main]), [cb |-> e.m_pCallback, ctx |-> e.m_pClass])
                  = Count(m_Delegates, e))
    /\ [](last.name = "RemoveDelegates" => CountKey(m_Delegates, last.key) = 0)

\* the same bound callable was registered twice for one instance, a pass
\* invoked it twice
C10_Witness ==
    /\ PassReturned
    /\ Len(m_Delegates) = 2
    /\ m_Delegates[1] = m_Delegates[2]
    /\ m_Delegates[1].m_pCallback.kind = "bound"
    /\ Len(calls[Main]) = 2
    /\ calls[Main][1].ctx = calls[Main][2].ctx

\* ------------------------------------------------------------- thread_safe
InPass(t) == pc[t] \in {"notify", "selfblocked"}

\* thread t's NotifyAll on the thread_safe delegate has returned
SafePassReturned(t) == pc[t] = "idle" /\ op[t].name = "NotifyAll" /\ ~terminated

NoReentry == \A t \in Threads : inner[t] = "none"

\* C5: while a NotifyAll pass of a thread_safe delegate is in flight, it is the
\* only pass, its thread owns the mutex, the vector is the one the pass began
\* with, and no step changes the vector or adds a callback to another thread's
\* record.
C5_PassIsExclusive ==
    /\ [](\A t \in Threads : InPass(t) =>
            /\ m_Mutex = t
            /\ m_Delegates = passSeq[t]
            /\ \A u \in Threads \ {t} : ~InPass(u) /\ pc[u] # "locked")
    /\ [][\A t \in Threads : (InPass(t) /\ InPass(t)') =>
            /\ m_Delegates' = m_Delegates
            /\ \A u \in Threads \ {t} : Len(calls'[u]) <= Len(calls[u])]_vars

\* a pass is between its first and its last callback while the other thread
\* waits for the lock with a Register
C5_Witness ==
    \E t \in Threads, u \in Threads :
        /\ t # u
        /\ pc[t] = "notify" /\ it[t] = 2 /\ itEnd[t] = 3
        /\ pc[u] = "lock" /\ op[u].name = "RegisterBound"

\* C6: with no callback re-entering, the calls are linearized in the order in
\* which they took the lock: the vector is what the calls made so far give when
\* applied one after the other in that order (absSeq), every pass invokes, in
\* order, the entries that sequence held when the pass took its place in the
\* order, and the vector does not change under a pass.
C6_Linearizable ==
    NoReentry =>
        /\ m_Delegates = absSeq
        /\ \A t \in Threads :
              /\ pc[t] = "notify" =>
                    /\ passSeq[t] = absSeq
                    /\ CallTargets(calls[t]) = SubSeq(Targets(passSeq[t]), 1, it[t] - 1)
              /\ SafePassReturned(t) => CallTargets(calls[t]) = Targets(passSeq[t])

\* both threads made their calls, one a pass over two entries, the other a
\* Register that had to wait for it
C6_Witness ==
    \E t \in Threads, u \in Threads :
        /\ t # u
        /\ SafePassReturned(t) /\ Len(calls[t]) = 2
        /\ pc[u] = "idle" /\ op[u].name = "RegisterFree"
        /\ Len(m_Delegates) = 3
        /\ nops[t] = MaxOps /\ nops[u] = MaxOps

\* C9 (as claimed): a callback that calls an operation of the same thread_safe
\* delegate blocks its thread for ever, and nothing detects or reports it.
C9_ReentryBlocksForEver ==
    \A t \in Threads : inner[t] # "none" => pc[t] = "selfblocked" /\ ~terminated

\* C9 (amended): the inner call locks a std::mutex its thread owns, which is
\* undefined: either the thread blocks on itself, and then it stays blocked,
\* keeps the mutex, and no operation of any thread takes the lock or changes
\* the vector again; or the library reports the relock and the program is
\* terminated.  Either way the inner call has no effect and never returns, and
\* the outer NotifyAll never returns.
C9_ReentryBlocksOrTerminates ==
    /\ [](\A t \in Threads : inner[t] # "none" =>
            /\ pc[t] = "selfblocked" \/ terminated
            /\ pc[t] \in {"selfblocked", "notify"}
            /\ m_Mutex = t
            /\ m_Delegates = passSeq[t])
    /\ [][\A t \in Threads : inner[t] # "none" =>
            /\ pc'[t] = pc[t]
            /\ m_Mutex' = m_Mutex
            /\ m_Delegates' = m_Delegates
            /\ \A u \in Threads : pc'[u] = "locked" => pc[u] = "locked"]_vars

\* a thread is blocked on the mutex it holds, and the other thread waits for
\* the same mutex
C9_Witness ==
    \E t \in Threads, u \in Threads :
        /\ t # u
        /\ pc[t] = "selfblocked" /\ inner[t] # "none" /\ m_Mutex = t
        /\ pc[u] = "lock"

\* C7 (as claimed): a thread_safe delegate has no lock-free path to its
\* entries: the vector changes only while the mutex is held.
C7_NoLockFreePath == [][m_Delegates' # m_Delegates => m_Mutex # 0]_vars

\* C7 (amended): the four operations thread_safe declares take the lock first
\* and hold it until they return: a thread inside one owns the mutex, and the
\* step that ends one is taken by the owner and frees the mutex.  The
\* operations and the vector thread_safe inherits from thread_unsafe stay
\* public, and they are the one way the vector changes with the mutex free.
C7_DeclaredOperationsHoldTheLock ==
    /\ [](\A t \in Threads : pc[t] \in {"locked", "notify", "selfblocked"} => m_Mutex = t)
    /\ [][\A t \in Threads :
            (SafeRegisterBound(t) \/ SafeRegisterFree(t) \/ SafeRemoveDelegates(t)
                \/ SafeNotifyReturn(t)) => (m_Mutex = t /\ m_Mutex' = 0)]_vars
    /\ [][(m_Delegates' # m_Delegates /\ m_Mutex = 0) =>
            \E t \in Threads :
               \/ \E f \in BaseFree, h \in SafeHandles : BaseRegisterFree(t, f, h)
               \/ \E k \in SafeHandles : BaseRemoveDelegates(t, k)]_vars

\* a pass holds the lock, and the vector has grown under it: the other thread,
\* which made no call through thread_safe, registered through the base
C7_Witness ==
    \E t \in Threads, u \in Threads :
        /\ t # u
        /\ pc[t] = "notify" /\ m_Mutex = t
        /\ op[u] = NoCall /\ nops[u] > 0
        /\ Len(m_Delegates) > Len(passSeq[t])

\* ------------------------------------------------------ keys and removal
\* C11: a free callable registered without a handle is stored with the null
\* key, and RemoveDelegates(nullptr) removes every entry with the null key,
\* whatever its callable, and leaves every entry with a non-null handle or a
\* bound instance where it was, in order.
C11_NullKeyRemovesAllHandleless ==
    /\ [][\A f \in UnsafeFree : RegisterFree(f, NULL) =>
            /\ Len(m_Delegates') = Len(m_Delegates) + 1
            /\ m_Delegates'[Len(m_Delegates')] = info(FreeCallback(f), NULL)]_vars
    /\ [][RemoveDelegates(NULL) =>
            /\ \A i \in 1 .. Len(m_Delegates') : m_Delegates'[i].m_pClass # NULL
            /\ m_Delegates' = SelectSeq(m_Delegates, LAMBDA e : e.m_pClass # NULL)
            /\ \A i \in 1 .. Len(m_Delegates) :
                  m_Delegates[i].m_pClass # NULL =>
                     Count(m_Delegates', m_Delegates[i]) = Count(m_Delegates, m_Delegates[i])]_vars

\* two different callables registered without a handle, around a bound
\* instance; RemoveDelegates(nullptr) left the bound entry alone
C11_Witness ==
    /\ last.name = "RemoveDelegates" /\ last.key = NULL
    /\ Len(last.before) = 3
    /\ last.before[1] = info(FreeCallback("Print"), NULL)
    /\ last.before[2].m_pCallback.kind = "bound"
    /\ last.before[3] = info(FreeCallback("Thrower"), NULL)
    /\ m_Delegates = << last.before[2] >>

\* C12: RemoveDelegates(key) with no entry of that key, on an empty vector or
\* not, leaves the vector exactly as it was and fails in no way: the call
\* returns to a caller that goes on; and whatever a RemoveDelegates(key) left,
\* a second RemoveDelegates(key) right after it leaves the same.
C12_RemoveAbsentKeyIsNoOp ==
    /\ [][\A k \in Keys :
            (RemoveDelegates(k) /\ CountKey(m_Delegates, k) = 0) =>
               /\ m_Delegates' = m_Delegates
               /\ ~terminated' /\ ~raised'
               /\ pc'[Main] = "idle"
               /\ last'.name = "RemoveDelegates"]_vars
    /\ [](last.name = "RemoveDelegates" =>
            /\ CountKey(m_Delegates, last.key) = 0
            /\ RemoveDelegatesSeq(m_Delegates, last.key) = m_Delegates)
    /\ [](RemoveDelegatesSeq(<< >>, NULL) = << >>)

\* RemoveDelegates was called with a key no entry has, on a vector of two
\* entries, and both are still there
C12_Witness ==
    /\ last.name = "RemoveDelegates"
    /\ Len(last.before) = 2
    /\ CountKey(last.before, last.key) = 0
    /\ m_Delegates = last.before
    /\ ~terminated

\* ------------------------------------------- the documented two-thread run
\* the entries of the documented run: obj's OnEvent, registered first, and the
\* lambda a thread registers while another notifies
EntryE == info(BoundCallback("OnEvent"), 1)

EntryL == info(FreeCallback("Print"), NULL)

\* E was registered, then L; one thread's last call was NotifyAll(1), begun
\* after the Register of E, the other's NotifyAll(2), begun after the Register
\* of L; all calls returned
TwoThreadRunDone(t, u) ==
    /\ t # u
    /\ pc[t] = "idle" /\ pc[u] = "idle" /\ ~terminated
    /\ nops[t] = 2 /\ nops[u] = 2
    /\ op[t] = Call("NotifyAll", "none", NULL, 1)
    /\ op[u] = Call("NotifyAll", "none", NULL, 2)
    /\ absSeq = << EntryE, EntryL >>
    /\ EntryE \in {passSeq[t][i] : i \in 1 .. Len(passSeq[t])}
    /\ EntryL \in {passSeq[u][i] : i \in 1 .. Len(passSeq[u])}

\* C13: a Register that has returned is visible to every NotifyAll that starts
\* afterwards, and no Register takes effect under a pass: a pass begins with
\* all the registrations made (and not removed) before it took the lock, and
\* invokes each of them once, in order, and nothing else.  In the documented
\* run NotifyAll(1) invokes E once, and L after E exactly when L was registered
\* before the pass began; the NotifyAll(2) made after both invokes E then L.
C13_RegisterVisibleToLaterPasses ==
    /\ [][\A t \in Threads : SafeNotifyAll(t) =>
            /\ m_Delegates = absSeq
            /\ passSeq'[t] = absSeq]_vars
    /\ [][\A u \in Threads : (SafeRegisterBound(u) \/ SafeRegisterFree(u)) =>
            /\ \A t \in Threads : ~InPass(t)
            /\ m_Delegates' = Append(m_Delegates, absSeq'[Len(absSeq')])]_vars
    /\ [](\A t \in Threads : (SafePassReturned(t) /\ inner[t] = "none") =>
            CallTargets(calls[t]) = Targets(passSeq[t]))
    /\ [](\A t, u \in Threads : TwoThreadRunDone(t, u) =>
            /\ CallTargets(calls[u]) = Targets(<< EntryE, EntryL >>)
            /\ \/ CallTargets(calls[t]) = Targets(<< EntryE >>)
               \/ CallTargets(calls[t]) = Targets(<< EntryE, EntryL >>)
            /\ (Len(calls[t]) = 2) <=> (passSeq[t] = << EntryE, EntryL >>)
            /\ \A i \in 1 .. Len(calls[t]) : calls[t][i].arg = 1
            /\ \A i \in 1 .. Len(calls[u]) : calls[u][i].arg = 2)

\* the documented run ended; L was registered after NotifyAll(1) began, which
\* invoked E alone; NotifyAll(2) invoked E then L
C13_Witness ==
    \E t, u \in Threads :
        /\ TwoThreadRunDone(t, u)
        /\ CallTargets(calls[t]) = Targets(<< EntryE >>)
        /\ CallTargets(calls[u]) = Targets(<< EntryE, EntryL >>)

\* the other order of the documented run: L was registered before NotifyAll(1)
\* began, which invoked E then L
C13_WitnessRegisteredFirst ==
    \E t, u \in Threads :
        /\ TwoThreadRunDone(t, u)
        /\ CallTargets(calls[t]) = Targets(<< EntryE, EntryL >>)
        /\ CallTargets(calls[u]) = Targets(<< EntryE, EntryL >>)

\* ------------------------------------------------- Register at compile time
\* C14 (as claimed): Register<T_CALLABLE_V> accepts a callable exactly when it
\* is invocable with the delegate's argument types: no callable that is
\* invocable with T_ARGS... is rejected, and every entry's callable is
\* invocable with T_ARGS....
C14_AcceptedExactlyWhenInvocable ==
    /\ \A f \in rejected : ~is_invocable_v(f, ArgList(T_ARGS))
    /\ \A i \in 1 .. Len(m_Delegates) :
          is_invocable_v(m_Delegates[i].m_pCallback.fn, ArgList(T_ARGS))

\* what the code accepts: a callable invocable with no argument and with
\* T_ARGS...; every rejection happens at compile time, none at run time
C14_AcceptedWhenInvocableWithNoneAndWithArgs ==
    /\ \A f \in rejected :
          ~is_invocable_v(f, << >>) \/ ~is_invocable_v(f, ArgList(T_ARGS))
    /\ \A i \in 1 .. Len(m_Delegates) :
          /\ is_invocable_v(m_Delegates[i].m_pCallback.fn, << >>)
          /\ is_invocable_v(m_Delegates[i].m_pCallback.fn, ArgList(T_ARGS))
    /\ ~terminated /\ ~raised

\* void PrintValue(int) was rejected by a thread_unsafe<int>, which holds an
\* entry for [](int x = 0) {}
C14_Witness ==
    /\ T_ARGS = "int"
    /\ "PrintValue" \in rejected
    /\ \E i \in 1 .. Len(m_Delegates) : m_Delegates[i].m_pCallback.fn = "Defaulted"

\* ------------------------------------------------------- bound receivers
\* C15: a pass invokes each bound entry's member function on the instance
\* given to the Register call that made the entry, never on another one: the
\* i-th invocation of a pass runs the i-th entry's callable on the i-th entry's
\* m_pClass, so the same member function registered for A and for B runs once
\* on A and once on B, in registration order.
C15_BoundRunsOnItsOwnInstance ==
    \A i \in 1 .. Len(calls[Main]) :
        /\ i <= Len(passSeq[Main])
        /\ calls[Main][i].cb = passSeq[Main][i].m_pCallback
        /\ calls[Main][i].cb.kind = "bound" =>
              /\ calls[Main][i].on = passSeq[Main][i].m_pClass
              /\ calls[Main][i].on \in Instances
              /\ absSeq[i] = info(BoundCallback(calls[Main][i].cb.fn), calls[Main][i].on)

\* OnEvent was registered for instance 1, then for instance 2, and a pass ran
\* it on 1, then on 2
C15_Witness ==
    /\ PassReturned
    /\ m_Delegates = << info(BoundCallback("OnEvent"), 1), info(BoundCallback("OnEvent"), 2) >>
    /\ Len(calls[Main]) = 2
    /\ calls[Main][1].on = 1 /\ calls[Main][2].on = 2
    /\ calls[Main][1].cb = calls[Main][2].cb

\* --------------------------------------------------------- frame conditions
\* S is T with some entries left out: nothing added, nothing reordered
RECURSIVE IsSubsequence(_, _)
IsSubsequence(S, T) ==
    IF S = << >> THEN TRUE
    ELSE IF T = << >> THEN FALSE
    ELSE IF Head(S) = Head(T) THEN IsSubsequence(Tail(S), Tail(T))
    ELSE IsSubsequence(S, Tail(T))

\* C16: the vector changes only in a Register or a RemoveDelegates; a Register,
\* bound or free, appends exactly one entry at the end and leaves the entries
\* before it as they were, in their order; a RemoveDelegates adds nothing and
\* reorders nothing; so an entry keeps its callback and its key from the
\* Register that stored it to the RemoveDelegates that removes it.
C16_OnlyRegisterAndRemoveChangeEntries ==
    /\ [][m_Delegates' # m_Delegates =>
            \/ \E f \in MemberFuncs, inst \in Instances : RegisterBound(f, inst)
            \/ \E f \in UnsafeFree, h \in Handles : RegisterFree(f, h)
            \/ \E k \in Keys : RemoveDelegates(k)]_vars
    /\ [][\A f \in MemberFuncs, inst \in Instances : RegisterBound(f, inst) =>
            /\ m_Delegates' = Append(m_Delegates, info(BoundCallback(f), inst))
            /\ SubSeq(m_Delegates', 1, Len(m_Delegates)) = m_Delegates]_vars
    /\ [][\A f \in UnsafeFree, h \in Handles : RegisterFree(f, h) =>
            /\ m_Delegates' = Append(m_Delegates, info(FreeCallback(f), h))
            /\ SubSeq(m_Delegates', 1, Len(m_Delegates)) = m_Delegates]_vars
    /\ [][\A k \in Keys : RemoveDelegates(k) =>
            /\ IsSubsequence(m_Delegates', m_Delegates)
            /\ Len(m_Delegates') <= Len(m_Delegates)]_vars

\* a Register onto two different entries has returned: the new entry is the
\* third, the two are where they were
C16_Witness ==
    /\ last.name = "Register"
    /\ Len(m_Delegates) = 3
    /\ m_Delegates[1] # m_Delegates[2]
    /\ m_Delegates[3].m_pClass = last.key
    /\ m_Delegates[3] \notin {m_Delegates[1], m_Delegates[2]}
    /\ SubSeq(m_Delegates, 1, 2) = SubSeq(absSeq, 1, 2)

\* C17: NotifyAll does not modify the vector: with callbacks that do not call
\* Register or RemoveDelegates, no step of a pass, from the call to the return,
\* changes the vector; when the pass has returned the vector is the one it
\* began with; and a NotifyAll that follows a NotifyAll begins with the vector
\* the first one had, whose entries the first one invoked in that order.
C17_NotifyAllLeavesEntriesAlone ==
    /\ [][((\E a \in ArgValues : NotifyAll(a)) \/ InvokeReturns(Main)
             \/ InvokeThrows(Main) \/ NotifyReturn) =>
            m_Delegates' = m_Delegates]_vars
    /\ [](PassReturned =>
            /\ m_Delegates = passSeq[Main]
            /\ CallTargets(calls[Main]) = Targets(passSeq[Main]))
    /\ [][\A a \in ArgValues : (NotifyAll(a) /\ last.name = "NotifyAll") =>
            /\ passSeq'[Main] = passSeq[Main]
            /\ Targets(passSeq'[Main]) = CallTargets(calls[Main])]_vars

\* a second NotifyAll, made right after a first one returned, has invoked the
\* two entries the first one invoked
C17_Witness ==
    /\ pc[Main] = "notify" /\ ~terminated
    /\ last.name = "NotifyAll"
    /\ Len(passSeq[Main]) = 2 /\ it[Main] = 3
    /\ CallTargets(calls[Main]) = Targets(m_Delegates)
    /\ m_Delegates[1] # m_Delegates[2]

\* ------------------------------------------------- completion of the calls
\* C18: on a thread_safe delegate whose callbacks return and do not call the
\* delegate, every operation that took the lock runs to its return, NotifyAll
\* over all the entries it began with, and the step that returns frees the
\* mutex: the mutex is owned exactly while a thread is inside an operation, so
\* it is free whenever none is; and with fair lock acquisition every call any
\* thread has made returns.
C18_CallsCompleteAndFreeTheLock ==
    /\ [](m_Mutex = 0 <=> \A t \in Threads : pc[t] \in {"idle", "lock"})
    /\ [](\A t \in Threads : pc[t] \in {"locked", "notify"} => m_Mutex = t)
    /\ [][\A t \in Threads : (pc[t] \in {"locked", "notify"} /\ pc'[t] = "idle") =>
            (m_Mutex = t /\ m_Mutex' = 0)]_vars
    /\ [](\A t \in Threads : SafePassReturned(t) =>
            CallTargets(calls[t]) = Targets(passSeq[t]))
    /\ \A t \in Threads : (pc[t] = "locked") ~> (pc[t] = "idle")
    /\ \A t \in Threads : (pc[t] = "notify") ~> (pc[t] = "idle")
    /\ \A t \in Threads : (pc[t] = "lock") ~> (pc[t] = "idle")

\* every call of every thread has returned, one of them a pass over two
\* entries, and the mutex is free
C18_Witness ==
    /\ \A t \in Threads : pc[t] = "idle" /\ nops[t] = MaxOps
    /\ m_Mutex = 0 /\ ~terminated
    /\ \E t \in Threads : op[t].name = "NotifyAll" /\ Len(calls[t]) = 2
    /\ \E t \in Threads : op[t].name = "RemoveDelegates"

\* ------------------------------------- callbacks that call the delegate
\* an entry of the vector that the pass, now at its end, never invoked
Skipped(e) == Count(CallTargets(calls[Main]), [cb |-> e.m_pCallback, ctx |-> e.m_pClass]) = 0

\* C19: nothing protects a pass of a thread_unsafe against a callback that
\* calls Register or RemoveDelegates on it: the call changes the vector at
\* once and the range-for goes on with the iterators it took when it began, so
\* the pass is no longer once-each-in-order (the witness is a pass that skipped
\* an entry that is still registered, invoked another twice and read behind the
\* vector's end).  A pass none of whose callbacks called the delegate keeps the
\* guarantee.
C19_ReentryIsUnprotected ==
    /\ [][(pc[Main] = "notify" /\ pc'[Main] = "notify") =>
            /\ itEnd'[Main] = itEnd[Main]
            /\ it'[Main] \in {it[Main], it[Main] + 1}]_vars
    /\ [][InvokeUnsubscribes(Main) =>
            /\ m_Delegates' = RemoveDelegatesSeq(m_Delegates, calls'[Main][Len(calls'[Main])].on)
            /\ pc'[Main] = "notify" /\ ~terminated']_vars
    /\ [][InvokeSubscribes(Main) =>
            /\ m_Delegates' = Append(m_Delegates, info(FreeCallback("Print"), NULL))
            /\ pc'[Main] = "notify" /\ ~terminated']_vars
    /\ []((pc[Main] = "notify" /\ inner[Main] = "none") =>
            /\ ~InvalidIterator(Main) \/ it[Main] = itEnd[Main]
            /\ ~terminated
            /\ m_Delegates = passSeq[Main]
            /\ CallTargets(calls[Main]) = SubSeq(Targets(passSeq[Main]), 1, it[Main] - 1))
    /\ []((PassReturned /\ inner[Main] = "none") =>
            CallTargets(calls[Main]) = Targets(m_Delegates))

\* the first of three callbacks removed itself: the pass went on to the third
\* entry, skipping the second, which is still registered, and then read the
\* position behind the vector's end and invoked the third entry again
C19_Witness ==
    /\ pc[Main] = "notify" /\ ~terminated
    /\ inner[Main] = "RemoveDelegates"
    /\ Len(passSeq[Main]) = 3
    /\ it[Main] = itEnd[Main]
    /\ m_Delegates = SubSeq(passSeq[Main], 2, 3)
    /\ m_Delegates[1] # m_Delegates[2]
    /\ CallTargets(calls[Main]) =
          Targets(<< passSeq[Main][1], passSeq[Main][3], passSeq[Main][3] >>)
    /\ Skipped(m_Delegates[1])
    /\ it[Main] - 1 > Len(m_Delegates)

\* ------------------------------------------------------- removal by key
\* C20: RemoveDelegates(p) chooses by the stored pointer alone: entries with the
\* same m_pClass go or stay together, bound entries of instance p and free
\* entries of handle p alike and whatever their callable; no step removes some
\* of the entries of a key and leaves others.
C20_RemovalIsByKeyAlone ==
    /\ [][\A p \in Keys : RemoveDelegates(p) =>
            /\ \A i \in 1 .. Len(m_Delegates) :
                  Count(m_Delegates', m_Delegates[i]) =
                     IF m_Delegates[i].m_pClass = p THEN 0
                     ELSE Count(m_Delegates, m_Delegates[i])
            /\ \A i \in 1 .. Len(m_Delegates') :
                  /\ m_Delegates'[i].m_pClass # p
                  /\ m_Delegates'[i] # info(m_Delegates'[i].m_pCallback, p)]_vars
    /\ [][\A k \in Keys :
            CountKey(m_Delegates', k) < CountKey(m_Delegates, k) =>
               CountKey(m_Delegates', k) = 0]_vars

\* an instance and a handle with the same address: the bound entry of the
\* instance and the free entry of the handle went together, an entry of
\* another key stayed
C20_Witness ==
    /\ last.name = "RemoveDelegates"
    /\ Len(last.before) = 3
    /\ \E i, j \in 1 .. 3 :
          /\ last.before[i].m_pCallback.kind = "bound"
          /\ last.before[j].m_pCallback.kind = "free"
          /\ last.before[i].m_pClass = last.key
          /\ last.before[j].m_pClass = last.key
    /\ Len(m_Delegates) = 1
    /\ m_Delegates[1].m_pClass # last.key

\* --------------------------------------- two delegates calling each other
\* thread t is inside d.NotifyAll, between its lock_guard and its return
InsideOuter(t) ==
    frame[t].pc \in {"locked", "notify", "innerlock", "innerlocked", "innernotify",
                     "selfblocked"}

\* thread t is inside the operation its callback called on the other delegate
InsideInner(t) == frame[t].pc \in {"innerlocked", "innernotify", "selfblocked"}

\* a callback has locked again a mutex its thread owns
Relocked == terminated \/ \E t \in Threads : frame[t].pc = "selfblocked"

\* each of the two threads is in a callback of the delegate it called, waiting
\* for the mutex of the other delegate, which the other thread holds
PairDeadlock ==
    \E t, u \in Threads :
        /\ t # u
        /\ frame[t].pc = "innerlock" /\ frame[u].pc = "innerlock"
        /\ frame[t].d # frame[u].d
        /\ m_MutexOf[frame[t].d] = t /\ m_MutexOf[frame[u].d] = u

\* C21: each thread_safe delegate has its own mutex and holds it while its
\* callbacks run, a callback's call into the other delegate included.  So when
\* one thread runs A.NotifyAll and another B.NotifyAll and the callbacks call
\* into the other delegate, the two threads can come to wait for each other,
\* with no thread having locked a mutex it owns, and then nothing moves again.
\* That and a relock are the only ways for a call not to return: a call whose
\* callback calls into the other delegate returns when neither happens.
C21_OwnLocksCanDeadlock ==
    /\ [](\A t \in Threads :
            /\ InsideOuter(t) => m_MutexOf[frame[t].d] = t
            /\ InsideInner(t) => m_MutexOf[Other(frame[t].d)] = t
            /\ (InsideOuter(t) /\ ~InsideInner(t)) => m_MutexOf[Other(frame[t].d)] # t)
    /\ [][PairDeadlock => (frame' = frame /\ m_MutexOf' = m_MutexOf /\ PairDeadlock')]_vars
    /\ \A t \in Threads :
          (frame[t].pc # "idle") ~> (frame[t].pc = "idle" \/ PairDeadlock \/ Relocked)
    /\ [](\A t \in Threads : frame[t].pc = "idle" =>
            \A d \in Delegates : m_MutexOf[d] # t)

\* one thread holds A's mutex and waits for B's in a callback, the other holds
\* B's and waits for A's; no thread locked a mutex it owns, and one of them had
\* a callback's call into the other delegate return before
C21_Witness ==
    /\ PairDeadlock
    /\ ~Relocked
    /\ \E t \in Threads :
          frame[t].d = "A" /\ frame[t].pc = "innerlock" /\ frame[t].crossed > 0

=============================================================================
